---- MODULE Spec2Model ----
(***************************************************************************)
(* listmonk-messenger: the pinpoint (SMS) and ses (email) Messenger        *)
(* adapters, their constructors and the Push / Flush / Close operations.   *)
(* The AWS services (STS GetCallerIdentity, Pinpoint SendMessages, SES     *)
(* SendRawEmail), session creation and smtppool's MIME serialisation are   *)
(* external: their answers are inputs chosen with \E.                      *)
(***************************************************************************)
EXTENDS Integers, Sequences, FiniteSets, TLC

VARIABLES
    messenger,  \* the Messenger value the caller holds (NoAdapter before construction)
    built,      \* ghost: the adapter exactly as the constructor returned it
    ctor,       \* record of the last constructor call
    pc,         \* position of sesMessenger.Push: "idle", "built", "serialized"
    msg,        \* the caller's Message of the current / last Push (caller-owned buffers)
    msgAtCall,  \* ghost: msg as it was when Push was called
    email,      \* the smtppool.Email envelope built by sesMessenger.Push
    emailB,     \* result of email.Bytes()
    calls,      \* transport calls issued by the current / last Push, in order
    ret,        \* what the last completed operation returned
    logged,     \* log lines written by the last Push
    ext,        \* ghost: what the external calls of the current / last Push answered
    failed,     \* ghost: an earlier Push on this adapter returned an error
    mutated,    \* "no", or where Push was when the caller overwrote one of msg's buffers
    closed      \* ghost: Close was called on this adapter

vars == <<messenger, built, ctor, pc, msg, msgAtCall, email, emailB, calls, ret,
          logged, ext, failed, mutated, closed>>

----------------------------------------------------------------------------
(* Bounds *)

\* longest Message.Attachments slice
MaxAtt == 2

(* Program constants *)

\* aws.Config{MaxRetries: aws.Int(3)}
MaxRetries == 3

channelType == "SMS"
ContentTypeHTML == "html"
ContentTypePlain == "plain"

----------------------------------------------------------------------------
(* Values *)

NoErr == "nil"
NoAdapter == [name |-> "none"]
NoMsg == [none |-> TRUE]
NoEmail == [none |-> TRUE]
NoBytes == [none |-> TRUE]
NoCampaign == [isNil |-> TRUE, FromEmail |-> ""]
NoRet == [op |-> "none", id |-> "", err |-> NoErr]

\* a JSON value of the configuration blob / a dynamically typed attribute value
Str(s) == [t |-> "string", s |-> s, b |-> FALSE]
Bool(b) == [t |-> "bool", s |-> "", b |-> b]
Num(s) == [t |-> "number", s |-> s, b |-> FALSE]
Field(k, v) == [k |-> k, v |-> v]

\* a document / map is a set of fields with distinct keys
Has(doc, k) == \E f \in doc : f.k = k
Get(doc, k) == (CHOOSE f \in doc : f.k = k).v

----------------------------------------------------------------------------
(* Configuration blobs and json.Unmarshal *)

Blob(fields) == [wellFormed |-> TRUE, doc |-> fields]
Malformed == [wellFormed |-> FALSE, doc |-> {}]

PinpointStrKeys == {"app_id", "access_key", "secret_key", "region", "message_type", "sender_id"}
SesStrKeys == {"access_key", "secret_key", "region"}

\* json.Unmarshal's error: a syntax error, or a recognised key holding a value of
\* the wrong JSON type; unknown keys are ignored
UnmarshalErr(blob, strKeys) ==
    IF ~blob.wellFormed THEN "json: syntax error"
    ELSE IF \E f \in blob.doc : \/ f.k \in strKeys /\ f.v.t # "string"
                                \/ f.k = "log" /\ f.v.t # "bool"
         THEN "json: cannot unmarshal"
         ELSE NoErr

\* a struct field after Unmarshal: the value of the key, the zero value when absent
StrOf(doc, k) == IF Has(doc, k) /\ Get(doc, k).t = "string" THEN Get(doc, k).s ELSE ""
BoolOf(doc, k) == IF Has(doc, k) /\ Get(doc, k).t = "bool" THEN Get(doc, k).b ELSE FALSE

pinpointCfg(blob) ==
    [AppID       |-> StrOf(blob.doc, "app_id"),
     AccessKey   |-> StrOf(blob.doc, "access_key"),
     SecretKey   |-> StrOf(blob.doc, "secret_key"),
     Region      |-> StrOf(blob.doc, "region"),
     MessageType |-> StrOf(blob.doc, "message_type"),
     SenderID    |-> StrOf(blob.doc, "sender_id"),
     Log         |-> BoolOf(blob.doc, "log")]

sesCfg(blob) ==
    [AccessKey |-> StrOf(blob.doc, "access_key"),
     SecretKey |-> StrOf(blob.doc, "secret_key"),
     Region    |-> StrOf(blob.doc, "region"),
     Log       |-> BoolOf(blob.doc, "log")]

\* the aws.Config both constructors build: static credentials only when both keys
\* are set, the region only when set
awsConfig(c) ==
    [MaxRetries  |-> MaxRetries,
     Credentials |-> IF c.AccessKey # "" /\ c.SecretKey # ""
                     THEN [static |-> TRUE, access |-> c.AccessKey, secret |-> c.SecretKey]
                     ELSE [static |-> FALSE, access |-> "", secret |-> ""],
     Region      |-> IF c.Region # "" THEN c.Region ELSE ""]

PinpointBlobs ==
    { Malformed,
      Blob({}),
      Blob({Field("app_id", Str(""))}),
      Blob({Field("app_id", Num("5"))}),
      Blob({Field("access_key", Str("AK")), Field("secret_key", Str("SK")),
            Field("region", Str("us-east-1")), Field("sender_id", Str("S"))}),
      Blob({Field("app_id", Str("A1")), Field("message_type", Str("TRANSACTIONAL")),
            Field("sender_id", Str("S")), Field("log", Bool(FALSE))}),
      Blob({Field("app_id", Str("A1")), Field("access_key", Str("AK")),
            Field("secret_key", Str("SK")), Field("region", Str("us-east-1")),
            Field("log", Bool(TRUE))}),
      Blob({Field("app_id", Str("A2")), Field("access_key", Str("AK"))}) }

SesBlobs ==
    { Malformed,
      Blob({}),
      Blob({Field("log", Bool(FALSE))}),
      Blob({Field("log", Str("yes"))}),
      Blob({Field("access_key", Str("AK")), Field("secret_key", Str("SK")),
            Field("region", Str("us-east-1")), Field("log", Bool(TRUE))}) }

\* what sts GetCallerIdentity can answer
StsErrs == {NoErr, "ExpiredToken"}

----------------------------------------------------------------------------
(* Constructors *)

\* the calls a constructor made to the identity-check transport, and what it returned
\* (stsAnswer: what GetCallerIdentity answered, NoErr when it was not called)
CtorResult(fn, blob, stsCalls, stsAnswer, outcome, err, adapter) ==
    [fn |-> fn, blob |-> blob, stsCalls |-> stsCalls, stsAnswer |-> stsAnswer,
     outcome |-> outcome, err |-> err, adapter |-> adapter]

\* checkCredentials returns whatever GetCallerIdentity answered
checkCredentialsNoCheck(stsErr) == NoErr
checkCredentials(stsErr) == stsErr

\* the app_id guard of NewPinpoint
InvalidAppIDNever(c) == FALSE
InvalidAppID(c) == c.AppID = ""

\* session.Must(session.NewSession(config)) panics when the session cannot be
\* created; then checkCredentials; then the service client and the adapter
FinishConstruction(fn, name, blob, c, sessOK, stsErr) ==
    IF ~sessOK
    THEN CtorResult(fn, blob, <<>>, NoErr, "panic", "session.Must", NoAdapter)
    ELSE IF checkCredentials(stsErr) # NoErr
         THEN CtorResult(fn, blob, <<"GetCallerIdentity">>, stsErr, "error",
                         checkCredentials(stsErr), NoAdapter)
         ELSE CtorResult(fn, blob, <<"GetCallerIdentity">>, stsErr, "adapter", NoErr,
                         [name |-> name, cfg |-> c,
                          client |-> [service |-> name, config |-> awsConfig(c)]])

NewPinpointResult(blob, sessOK, stsErr) ==
    IF UnmarshalErr(blob, PinpointStrKeys) # NoErr
    THEN CtorResult("NewPinpoint", blob, <<>>, NoErr, "error",
                    UnmarshalErr(blob, PinpointStrKeys), NoAdapter)
    ELSE IF InvalidAppID(pinpointCfg(blob))
         THEN CtorResult("NewPinpoint", blob, <<>>, NoErr, "error", "invalid app_id", NoAdapter)
         ELSE FinishConstruction("NewPinpoint", "pinpoint", blob, pinpointCfg(blob),
                                 sessOK, stsErr)

NewAWSSESResult(blob, sessOK, stsErr) ==
    IF UnmarshalErr(blob, SesStrKeys) # NoErr
    THEN CtorResult("NewAWSSES", blob, <<>>, NoErr, "error",
                    UnmarshalErr(blob, SesStrKeys), NoAdapter)
    ELSE FinishConstruction("NewAWSSES", "ses", blob, sesCfg(blob), sessOK, stsErr)

NoCtor == CtorResult("none", Malformed, <<>>, NoErr, "none", NoErr, NoAdapter)

\* the caller keeps the adapter a constructor returned; after an error it holds none
Construct(r) ==
    /\ ctor' = r
    /\ messenger' = r.adapter
    /\ built' = r.adapter
    /\ ret' = [op |-> r.fn, id |-> "", err |-> r.err]
    /\ UNCHANGED <<pc, msg, msgAtCall, email, emailB, calls, logged, ext, failed, mutated, closed>>

NewPinpoint ==
    /\ messenger = NoAdapter
    /\ pc = "idle"
    /\ \E blob \in PinpointBlobs, sessOK \in BOOLEAN, stsErr \in StsErrs :
        Construct(NewPinpointResult(blob, sessOK, stsErr))

NewAWSSES ==
    /\ messenger = NoAdapter
    /\ pc = "idle"
    /\ \E blob \in SesBlobs, sessOK \in BOOLEAN, stsErr \in StsErrs :
        Construct(NewAWSSESResult(blob, sessOK, stsErr))

----------------------------------------------------------------------------
(* Messages *)

Bytes == {0, 1}

\* a slice: nil, or backing bytes
Attachments(isNil, items) == [isNil |-> isNil, items |-> items]
NilAttachments == Attachments(TRUE, <<>>)

Message(body, contentType, campaign, attachments, attribs) ==
    [Body        |-> body,
     Subject     |-> "Hello",
     From        |-> "x@y.com",
     Headers     |-> <<"X-Mailer: listmonk">>,
     ContentType |-> contentType,
     Attachments |-> attachments,
     Subscriber  |-> [Email |-> "a@b.com", Attribs |-> attribs],
     Campaign    |-> campaign]

Campaign(fromEmail) == [isNil |-> FALSE, FromEmail |-> fromEmail]

Bodies == {<<>>, <<0, 1>>}
ContentTypes == {ContentTypePlain, ContentTypeHTML, "", "markdown"}
Campaigns == {NoCampaign, Campaign("c@y.com"), Campaign("")}
AttachmentPool ==
    { [Name |-> "a.txt", Header |-> "text/plain", Content |-> <<0>>],
      [Name |-> "b.bin", Header |-> "application/octet-stream", Content |-> <<1, 0>>] }

SeqsUpTo(S, n) == UNION {[1..k -> S] : k \in 0..n}

\* the Message.Attachments slices: nil, or up to n attachments of the pool
AttachmentLists(n) ==
    {NilAttachments} \cup {Attachments(FALSE, l) : l \in SeqsUpTo(AttachmentPool, n)}

AttribMaps ==
    { {},
      {Field("city", Str("Pune"))},
      {Field("phone", Str("+15550001111"))},
      {Field("phone", Str("")), Field("city", Str("Pune"))},
      {Field("phone", Num("15550001111"))},
      {Field("phone", Bool(TRUE))} }

\* the Messages a caller passes to Push: every Attribs map on a plain message, and
\* every content type, campaign and attachment list on a message with a phone
\* (with at most n attachments)
Messages(n) ==
    {Message(b, ContentTypeHTML, NoCampaign, NilAttachments, a) :
        b \in Bodies, a \in AttribMaps}
    \cup
    {Message(b, ct, c, l, {Field("phone", Str("+15550001111"))}) :
        b \in Bodies, ct \in ContentTypes, c \in Campaigns, l \in AttachmentLists(n)}

\* what the send calls can answer
SendErrs == {NoErr, "Throttling"}
MessageIds == {"id-1", "id-2"}

PushResult(sent, id, err, lines) == [calls |-> sent, id |-> id, err |-> err, logged |-> lines]

NoExt == [serialized |-> FALSE, serErr |-> NoErr, sent |-> FALSE, sendErr |-> NoErr,
          MessageId |-> "", results |-> 0]

----------------------------------------------------------------------------
(* pinpointMessenger *)

\* phone, ok := msg.Subscriber.Attribs["phone"].(string)
PhoneAttrUnchecked(attribs) ==
    [phone |-> StrOf(attribs, "phone"), ok |-> TRUE]
PhoneAttr(attribs) ==
    IF Has(attribs, "phone") /\ Get(attribs, "phone").t = "string"
    THEN [phone |-> Get(attribs, "phone").s, ok |-> TRUE]
    ELSE [phone |-> "", ok |-> FALSE]

SendMessagesInputNoSender(cfg, phone, body) ==
    [op             |-> "SendMessages",
     ApplicationId  |-> cfg.AppID,
     Addresses      |-> {[address |-> phone, ChannelType |-> channelType]},
     Body           |-> body,
     MessageType    |-> cfg.MessageType,
     SenderId       |-> ""]
SendMessagesInput(cfg, phone, body) ==
    [op             |-> "SendMessages",
     ApplicationId  |-> cfg.AppID,
     Addresses      |-> {[address |-> phone, ChannelType |-> channelType]},
     Body           |-> body,
     MessageType    |-> cfg.MessageType,
     SenderId       |-> cfg.SenderID]

\* Push: sendErr is SendMessages' error, results the number of per-recipient result
\* entries of its response (out.MessageResponse.Result, present in every successful
\* response); one log line per entry when cfg.Log is set
pinpointPush(p, m, sendErr, results) ==
    IF ~PhoneAttr(m.Subscriber.Attribs).ok
    THEN PushResult(<<>>, "", "could not find subscriber phone", 0)
    ELSE IF sendErr # NoErr
         THEN PushResult(<<SendMessagesInput(p.cfg, PhoneAttr(m.Subscriber.Attribs).phone,
                                             m.Body)>>, "", sendErr, 0)
         ELSE PushResult(<<SendMessagesInput(p.cfg, PhoneAttr(m.Subscriber.Attribs).phone,
                                             m.Body)>>, "", NoErr,
                         IF p.cfg.Log THEN results ELSE 0)

PinpointPush ==
    /\ messenger.name = "pinpoint"
    /\ pc = "idle"
    /\ \E m \in Messages(MaxAtt), sendErr \in SendErrs, results \in 0..1 :
        LET r == pinpointPush(messenger, m, sendErr, results) IN
        /\ msg' = m
        /\ msgAtCall' = m
        /\ calls' = r.calls
        /\ ret' = [op |-> "Push", id |-> r.id, err |-> r.err]
        /\ logged' = r.logged
        /\ ext' = IF r.calls = <<>> THEN NoExt
                  ELSE [NoExt EXCEPT !.sent = TRUE, !.sendErr = sendErr,
                                     !.results = IF sendErr = NoErr THEN results ELSE 0]
    /\ pc' = "returned"
    /\ mutated' = "no"
    /\ UNCHANGED <<messenger, built, ctor, email, emailB, failed, closed>>

----------------------------------------------------------------------------
(* sesMessenger *)

\* a []byte held by the envelope: nil, bytes of its own, or a view of one of the
\* caller's buffers (the Message's Body, the Content of its i-th attachment)
NilBuf == [kind |-> "nil", bytes |-> <<>>, idx |-> 0]
Own(bytes) == [kind |-> "own", bytes |-> bytes, idx |-> 0]
BodyRef == [kind |-> "body", bytes |-> <<>>, idx |-> 0]
AttRef(i) == [kind |-> "att", bytes |-> <<>>, idx |-> i]

\* the bytes a buffer holds now, m being the Message whose buffers it may view
Deref(buf, m) ==
    CASE buf.kind = "nil" -> <<>>
      [] buf.kind = "own" -> buf.bytes
      [] buf.kind = "body" -> m.Body
      [] buf.kind = "att" -> m.Attachments.items[buf.idx].Content

\* one smtppool.Attachment: Content is a fresh slice filled by copy()
convertAttachmentAlias(f, i) ==
    [Filename |-> f.Name, Header |-> f.Header, Content |-> AttRef(i)]
convertAttachment(f, i) ==
    [Filename |-> f.Name, Header |-> f.Header, Content |-> Own(f.Content)]

\* files stays nil when msg.Attachments is nil
convertAttachments(atts) ==
    IF atts.isNil THEN NilAttachments
    ELSE Attachments(FALSE, [i \in 1..Len(atts.items) |->
                                convertAttachment(atts.items[i], i)])

resolveFromIgnoreCampaign(m) == m.From
resolveFrom(m) == IF ~m.Campaign.isNil THEN m.Campaign.FromEmail ELSE m.From

\* the content-type switch: email.Text / email.HTML share msg.Body's backing array
selectContentHTMLOnly(m) == [Text |-> NilBuf, HTML |-> BodyRef]
selectContent(m) ==
    IF m.ContentType = ContentTypePlain
    THEN [Text |-> BodyRef, HTML |-> NilBuf]
    ELSE [Text |-> NilBuf, HTML |-> BodyRef]

buildEmail(m) ==
    [From        |-> resolveFrom(m),
     To          |-> <<m.Subscriber.Email>>,
     Subject     |-> m.Subject,
     Sender      |-> m.From,
     Headers     |-> m.Headers,
     Attachments |-> convertAttachments(m.Attachments),
     Text        |-> selectContent(m).Text,
     HTML        |-> selectContent(m).HTML]

\* what email.Bytes() encodes: every field of the envelope, the buffers as they
\* are when it runs (the MIME encoding itself is smtppool's)
rawMessage(e, m) ==
    [From        |-> e.From,
     To          |-> e.To,
     Subject     |-> e.Subject,
     Sender      |-> e.Sender,
     Headers     |-> e.Headers,
     Text        |-> Deref(e.Text, m),
     HTML        |-> Deref(e.HTML, m),
     Attachments |-> [i \in 1..Len(e.Attachments.items) |->
                        [Filename |-> e.Attachments.items[i].Filename,
                         Header   |-> e.Attachments.items[i].Header,
                         Content  |-> Deref(e.Attachments.items[i].Content, m)]]]

SerErrs == {NoErr, "mime: invalid header"}

\* where Push goes after email.Bytes()
afterBytesIgnoreErr(serErr) == "serialized"
afterBytes(serErr) == IF serErr # NoErr THEN "returned" ELSE "serialized"

SendRawEmailInput(source, destination, data) ==
    [op |-> "SendRawEmail", Source |-> source, Destinations |-> <<destination>>,
     RawMessage |-> data]

\* what Push returns after SendRawEmail answered; *out.MessageId is read unchecked:
\* a successful SendRawEmail response carries its MessageId (a required member of
\* the output), so messageId ranges over identifiers
sesReturnNoId(sendErr, messageId) ==
    [op |-> "Push", id |-> "", err |-> sendErr]
sesReturn(sendErr, messageId) ==
    IF sendErr # NoErr
    THEN [op |-> "Push", id |-> "", err |-> sendErr]
    ELSE [op |-> "Push", id |-> messageId, err |-> NoErr]

\* Push, up to the envelope: attachments copied, From resolved, body selected
SesPush ==
    /\ messenger.name = "ses"
    /\ pc = "idle"
    /\ \E m \in Messages(MaxAtt) :
        /\ msg' = m
        /\ msgAtCall' = m
        /\ email' = buildEmail(m)
    /\ pc' = "built"
    /\ emailB' = NoBytes
    /\ calls' = <<>>
    /\ ret' = NoRet
    /\ logged' = 0
    /\ ext' = NoExt
    /\ mutated' = "no"
    /\ UNCHANGED <<messenger, built, ctor, failed, closed>>

\* emailB, err := email.Bytes(); on an error Push returns it
SesSerialize ==
    /\ pc = "built"
    /\ \E serErr \in SerErrs :
        /\ ext' = [ext EXCEPT !.serialized = TRUE, !.serErr = serErr]
        /\ emailB' = IF serErr = NoErr THEN rawMessage(email, msg) ELSE NoBytes
        /\ pc' = afterBytes(serErr)
        /\ ret' = IF afterBytes(serErr) = "returned"
                  THEN [op |-> "Push", id |-> "", err |-> serErr]
                  ELSE ret
    /\ UNCHANGED <<messenger, built, ctor, msg, msgAtCall, email, calls, logged,
                   failed, mutated, closed>>

\* SendRawEmail, the optional log line and the return
SesSend ==
    /\ pc = "serialized"
    /\ \E sendErr \in SendErrs, messageId \in MessageIds :
        /\ calls' = Append(calls, SendRawEmailInput(email.From, msg.Subscriber.Email,
                                                    emailB))
        /\ ext' = [ext EXCEPT !.sent = TRUE, !.sendErr = sendErr,
                              !.MessageId = IF sendErr = NoErr THEN messageId ELSE ""]
        /\ ret' = sesReturn(sendErr, messageId)
        /\ logged' = IF sendErr = NoErr /\ messenger.cfg.Log THEN 1 ELSE 0
    /\ pc' = "returned"
    /\ UNCHANGED <<messenger, built, ctor, msg, msgAtCall, email, emailB, failed, mutated, closed>>

----------------------------------------------------------------------------
(* The caller *)

Flip(bytes) == [i \in DOMAIN bytes |-> 1 - bytes[i]]

\* the caller overwrites one buffer of the Message it passed to a Push that has
\* copied the attachments already (in flight, or just returned)
MutateBody ==
    /\ pc \in {"built", "serialized", "returned"}
    /\ mutated = "no"
    /\ msg.Body # <<>>
    /\ msg' = [msg EXCEPT !.Body = Flip(@)]
    /\ mutated' = pc
    /\ UNCHANGED <<messenger, built, ctor, pc, msgAtCall, email, emailB, calls, ret,
                   logged, ext, failed, closed>>

MutateAttachment ==
    /\ pc \in {"built", "serialized", "returned"}
    /\ mutated = "no"
    /\ \E i \in 1..Len(msg.Attachments.items) :
        msg' = [msg EXCEPT !.Attachments.items[i].Content = Flip(@)]
    /\ mutated' = pc
    /\ UNCHANGED <<messenger, built, ctor, pc, msgAtCall, email, emailB, calls, ret,
                   logged, ext, failed, closed>>

\* Push has returned: its frame (the Message copy, the envelope, the raw bytes) is
\* dropped and the caller has the result
PushReturn ==
    /\ pc = "returned"
    /\ pc' = "idle"
    /\ failed' = (failed \/ ret.err # NoErr)
    /\ msg' = NoMsg
    /\ msgAtCall' = NoMsg
    /\ email' = NoEmail
    /\ emailB' = NoBytes
    /\ calls' = <<>>
    /\ ret' = NoRet
    /\ logged' = 0
    /\ ext' = NoExt
    /\ mutated' = "no"
    /\ UNCHANGED <<messenger, built, ctor, closed>>

\* Flush and Close of both adapters return nil and touch nothing
CloseDropsClient(a) == [a EXCEPT !.client = [service |-> "closed", config |-> @.config]]
AfterClose(a) == a
AfterFlush(a) == a

Flush ==
    /\ messenger # NoAdapter
    /\ pc = "idle"
    /\ messenger' = AfterFlush(messenger)
    /\ ret' = [op |-> "Flush", id |-> "", err |-> NoErr]
    /\ UNCHANGED <<built, ctor, pc, msg, msgAtCall, email, emailB, calls, logged,
                   ext, failed, mutated, closed>>

Close ==
    /\ messenger # NoAdapter
    /\ pc = "idle"
    /\ messenger' = AfterClose(messenger)
    /\ ret' = [op |-> "Close", id |-> "", err |-> NoErr]
    /\ closed' = TRUE
    /\ UNCHANGED <<built, ctor, pc, msg, msgAtCall, email, emailB, calls, logged,
                   ext, failed, mutated>>

Init ==
    /\ messenger = NoAdapter
    /\ built = NoAdapter
    /\ ctor = NoCtor
    /\ pc = "idle"
    /\ msg = NoMsg
    /\ msgAtCall = NoMsg
    /\ email = NoEmail
    /\ emailB = NoBytes
    /\ calls = <<>>
    /\ ret = NoRet
    /\ logged = 0
    /\ ext = NoExt
    /\ failed = FALSE
    /\ mutated = "no"
    /\ closed = FALSE

Next ==
    \/ NewPinpoint
    \/ NewAWSSES
    \/ PinpointPush
    \/ SesPush
    \/ SesSerialize
    \/ SesSend
    \/ MutateBody
    \/ MutateAttachment
    \/ PushReturn
    \/ Flush
    \/ Close

Spec == Init /\ [][Next]_vars

----------------------------------------------------------------------------
(* Properties *)

Returned(name) == pc = "returned" /\ messenger.name = name

\* the Message's Subscriber.Attribs holds a string under "phone"
HasStringPhone(m) ==
    \E f \in m.Subscriber.Attribs : f.k = "phone" /\ f.v.t = "string"
StringPhone(m) ==
    (CHOOSE f \in m.Subscriber.Attribs : f.k = "phone" /\ f.v.t = "string").v.s

\* C1: a pinpoint Push of a Message whose Attribs has no "phone" key, or a "phone"
\* that is not a string, returns an error (with an empty identifier) and has made
\* no SendMessages call.
C1_MissingPhoneNoCall ==
    (Returned("pinpoint") /\ ~HasStringPhone(msgAtCall))
        => /\ ret.err # NoErr
           /\ ret.id = ""
           /\ calls = <<>>
           /\ ~ext.sent

C1_Witness ==
    /\ Returned("pinpoint")
    /\ \E f \in msgAtCall.Subscriber.Attribs : f.k = "phone" /\ f.v.t = "number"
    /\ ret.err = "could not find subscriber phone"
    /\ calls = <<>>

\* the blob parses and its app_id is missing or empty
ParsesWithoutAppID(blob) ==
    /\ blob.wellFormed
    /\ \A f \in blob.doc : f.k \in PinpointStrKeys => f.v.t = "string"
    /\ \A f \in blob.doc : f.k = "log" => f.v.t = "bool"
    /\ \A f \in blob.doc : f.k = "app_id" => f.v.s = ""

\* C2: NewPinpoint on a blob that parses but has a missing or empty app_id returns
\* the configuration error and no adapter, without calling the identity check,
\* whatever that check would have answered.
C2_MissingAppIDFails ==
    (ctor.fn = "NewPinpoint" /\ ParsesWithoutAppID(ctor.blob))
        => /\ ctor.outcome = "error"
           /\ ctor.err = "invalid app_id"
           /\ ctor.adapter = NoAdapter
           /\ ctor.stsCalls = <<>>
           /\ messenger = NoAdapter

C2_Witness ==
    /\ ctor.fn = "NewPinpoint"
    /\ ParsesWithoutAppID(ctor.blob)
    /\ \E f \in ctor.blob.doc : f.k = "access_key" /\ f.v.s # ""
    /\ ctor.err = "invalid app_id"
    /\ messenger = NoAdapter

\* C3: a constructor returns an adapter only after exactly one identity-check call
\* of that construction answered without error; when the check errors the
\* constructor returns that error and no adapter; the caller holds an adapter only
\* from a construction that returned one.
C3_AdapterOnlyAfterCheck ==
    /\ ctor.outcome = "adapter"
         => /\ ctor.stsCalls = <<"GetCallerIdentity">>
            /\ ctor.stsAnswer = NoErr
            /\ ctor.err = NoErr
    /\ (ctor.stsCalls # <<>> /\ ctor.stsAnswer # NoErr)
         => /\ ctor.outcome = "error"
            /\ ctor.err = ctor.stsAnswer
    /\ Len(ctor.stsCalls) <= 1
    /\ ctor.outcome # "adapter" => (ctor.adapter = NoAdapter /\ messenger = NoAdapter)
    /\ messenger # NoAdapter => (ctor.outcome = "adapter" /\ messenger.name # "none")

C3_Witness ==
    /\ ctor.fn = "NewAWSSES"
    /\ ctor.stsCalls = <<"GetCallerIdentity">>
    /\ ctor.stsAnswer = "ExpiredToken"
    /\ ctor.err = "ExpiredToken"
    /\ messenger = NoAdapter

\* the envelope's text / HTML body as built
TextBody == Deref(email.Text, msgAtCall)
HTMLBody == Deref(email.HTML, msgAtCall)

\* C4 as stated: with ContentType = plain the envelope has a non-empty text body
\* and an empty HTML body, with any other ContentType a non-empty HTML body and an
\* empty text body.
C4_Original ==
    email # NoEmail
        => IF msgAtCall.ContentType = "plain"
           THEN Len(TextBody) > 0 /\ Len(HTMLBody) = 0
           ELSE Len(HTMLBody) > 0 /\ Len(TextBody) = 0

\* C4 amended: with ContentType = plain the text body is Message.Body and the HTML
\* body is empty; with any other ContentType the HTML body is Message.Body and the
\* text body is empty. So exactly one of the two is populated when Body is not
\* empty, and none when it is.
C4_BodySelection ==
    email # NoEmail
        => /\ IF msgAtCall.ContentType = "plain"
              THEN TextBody = msgAtCall.Body /\ Len(HTMLBody) = 0
              ELSE HTMLBody = msgAtCall.Body /\ Len(TextBody) = 0
           /\ (msgAtCall.Body # <<>>) <=> (Len(TextBody) > 0) # (Len(HTMLBody) > 0)

C4_Witness ==
    /\ pc = "built"
    /\ msgAtCall.ContentType = "plain"
    /\ Len(TextBody) > 0
    /\ Len(HTMLBody) = 0

\* C5: the envelope's From is the Campaign's FromEmail when the Message has a
\* Campaign and Message.From when it has none; the Source of the send call is the
\* same address; the envelope's Sender is Message.From.
C5_FromResolution ==
    email # NoEmail
        => LET from == IF msgAtCall.Campaign.isNil THEN msgAtCall.From
                       ELSE msgAtCall.Campaign.FromEmail IN
           /\ email.From = from
           /\ email.Sender = msgAtCall.From
           /\ \A i \in 1..Len(calls) :
                calls[i].Source = from /\ calls[i].RawMessage.From = from

C5_Witness ==
    /\ Returned("ses")
    /\ ~msgAtCall.Campaign.isNil
    /\ msgAtCall.Campaign.FromEmail = "c@y.com"
    /\ Len(calls) = 1
    /\ calls[1].Source = "c@y.com"
    /\ email.Sender = "x@y.com"

\* the attachments of a raw message are those of the Message as Push received it
SameAttachments(raw, m) ==
    /\ Len(raw.Attachments) = Len(m.Attachments.items)
    /\ \A i \in 1..Len(raw.Attachments) :
        /\ raw.Attachments[i].Content = m.Attachments.items[i].Content
        /\ raw.Attachments[i].Filename = m.Attachments.items[i].Name

\* C6: the attachments handed to the transport are, in number, order and content,
\* those of the Message when Push was called, whatever the caller wrote into the
\* original buffers after the copy.
C6_AttachmentsCopied ==
    /\ (messenger.name = "ses" /\ pc = "serialized") => SameAttachments(emailB, msgAtCall)
    /\ messenger.name = "ses" =>
         \A i \in 1..Len(calls) : SameAttachments(calls[i].RawMessage, msgAtCall)

C6_Witness ==
    /\ Returned("ses")
    /\ mutated = "built"
    /\ Len(msgAtCall.Attachments.items) = 2
    /\ msg.Attachments # msgAtCall.Attachments
    /\ Len(calls) = 1
    /\ SameAttachments(calls[1].RawMessage, msgAtCall)

\* C7: a pinpoint Push of a Message with a string phone makes exactly one
\* SendMessages call: that phone as the only address, bound to channel "SMS", the
\* Message's body, the configured application ID, message type and sender ID; it
\* returns ("", nil) when the call succeeds and ("", the call's error) when not.
C7_SmsSendOnce ==
    (Returned("pinpoint") /\ HasStringPhone(msgAtCall))
        => /\ Len(calls) = 1
           /\ calls[1].op = "SendMessages"
           /\ calls[1].Addresses =
                {[address |-> StringPhone(msgAtCall), ChannelType |-> "SMS"]}
           /\ calls[1].Body = msgAtCall.Body
           /\ calls[1].ApplicationId = StrOf(ctor.blob.doc, "app_id")
           /\ calls[1].MessageType = StrOf(ctor.blob.doc, "message_type")
           /\ calls[1].SenderId = StrOf(ctor.blob.doc, "sender_id")
           /\ ext.sent
           /\ ret.id = ""
           /\ ret.err = ext.sendErr

C7_Witness ==
    /\ Returned("pinpoint")
    /\ HasStringPhone(msgAtCall)
    /\ StringPhone(msgAtCall) = "+15550001111"
    /\ Len(calls) = 1
    /\ calls[1].SenderId = "S"
    /\ calls[1].MessageType = "TRANSACTIONAL"
    /\ ret = [op |-> "Push", id |-> "", err |-> NoErr]

\* C8: when email.Bytes() fails, Push returns that error with an empty identifier
\* and makes no SendRawEmail call; a Push makes at most one SendRawEmail call, and
\* only after email.Bytes() succeeded.
C8_NoSendAfterSerializationError ==
    messenger.name = "ses"
        => /\ (ext.serialized /\ ext.serErr # NoErr)
                => /\ calls = <<>>
                   /\ ~ext.sent
                   /\ pc = "returned"
                   /\ ret = [op |-> "Push", id |-> "", err |-> ext.serErr]
           /\ Len(calls) <= 1
           /\ calls # <<>> => (ext.serialized /\ ext.serErr = NoErr /\ emailB # NoBytes)

C8_Witness ==
    /\ Returned("ses")
    /\ ext.serialized
    /\ ext.serErr = "mime: invalid header"
    /\ ret.err = "mime: invalid header"
    /\ calls = <<>>

\* C9: when email.Bytes() and SendRawEmail both succeed, Push has made exactly one
\* SendRawEmail call, to the one destination Subscriber.Email and with the resolved
\* from-address as Source, and returns (the MessageId of the response, nil).
C9_EmailSendReturnsId ==
    (Returned("ses") /\ ext.serialized /\ ext.serErr = NoErr /\ ext.sendErr = NoErr)
        => /\ Len(calls) = 1
           /\ calls[1].op = "SendRawEmail"
           /\ calls[1].Destinations = <<msgAtCall.Subscriber.Email>>
           /\ calls[1].Source = IF msgAtCall.Campaign.isNil THEN msgAtCall.From
                                ELSE msgAtCall.Campaign.FromEmail
           /\ ext.sent
           /\ ext.MessageId \in MessageIds
           /\ ret = [op |-> "Push", id |-> ext.MessageId, err |-> NoErr]

C9_Witness ==
    /\ Returned("ses")
    /\ ext.sent
    /\ ext.MessageId = "id-2"
    /\ ret = [op |-> "Push", id |-> "id-2", err |-> NoErr]
    /\ Len(calls) = 1
    /\ calls[1].Destinations = <<"a@b.com">>

\* the configuration the constructor parsed from its blob
ParsedCfg == IF messenger.name = "pinpoint" THEN pinpointCfg(ctor.blob) ELSE sesCfg(ctor.blob)

\* C10: whatever Pushes (failed ones included), Flushes and Closes came before, the
\* adapter's configuration and client are those of its construction, and a Push of
\* a valid Message still makes its transport call and returns without error when
\* the transport answers without error.
C10_AdapterStaysUsable ==
    messenger # NoAdapter
        => /\ messenger = built
           /\ messenger.cfg = ParsedCfg
           /\ messenger.client = [service |-> messenger.name,
                                  config |-> awsConfig(ParsedCfg)]
           /\ (Returned("pinpoint") /\ HasStringPhone(msgAtCall)) => Len(calls) = 1
           /\ (Returned("ses") /\ ext.serErr = NoErr) => Len(calls) = 1
           /\ (pc = "returned" /\ calls # <<>> /\ ext.sendErr = NoErr) => ret.err = NoErr

C10_Witness ==
    /\ failed
    /\ closed
    /\ pc = "returned"
    /\ Len(calls) = 1
    /\ ret.err = NoErr
    /\ messenger = built

====
